---- MODULE Spec2Model ----
(***************************************************************************)
(* Title layout engine of the media-captioning routes                      *)
(* (routes/v1/video/add_title_to_video.py, routes/v1/image/                 *)
(* add_title_to_image.py).                                                  *)
(*                                                                         *)
(* Strings.  A Python str is modelled as a sequence of atoms.  An atom is   *)
(* a record [k, n, w]: k is the kind, n the number of characters, w the     *)
(* identity of a word.  A single character (space, newline, colon, comma,   *)
(* ...) is an atom whose kind is the character itself and whose n is 1.     *)
(* A dictionary word is one atom of kind "thai" (all its characters are in  *)
(* U+0E00..U+0E7F) or "latin" (letters a-z) of n characters.  len(), split, *)
(* strip, `in` and concatenation are defined on this representation.        *)
(***************************************************************************)
EXTENDS Integers, Sequences, FiniteSets, TLC

VARIABLES
    pc,             \* position of the running call
    text,           \* argument text
    max_lines,      \* argument max_lines of adaptive_split_thai_text
    budget,         \* argument max_chars_per_line of smart_split_thai_text
    lines,          \* local/returned `lines`
    chars_per_line, \* adaptive_split_thai_text local
    min_chars,      \* adaptive_split_thai_text local
    max_chars,      \* adaptive_split_thai_text local
    calls,          \* number of smart_split_thai_text invocations made by the call
    truncated,      \* whether the call executed lines = lines[:max_lines]
    words,          \* token list handed to the punctuation loop
    processed,      \* processed_words after the punctuation loop
    count,          \* argument count of find_important_words
    final_words,    \* value returned by find_important_words
    lay,            \* layout arithmetic of process_add_title(_to_image)
    cleaned_text,   \* value returned by clean_title_text
    req,            \* one request to add_title_to_image / add_title_to_video
    drawn,          \* the runs of one title line drawn with highlights
    jobs,           \* the requests being processed concurrently
    objects,        \* the storage objects, each with the job that wrote it last
    backends        \* which storage backends are usable

vars == <<pc, text, max_lines, budget, lines, chars_per_line, min_chars,
          max_chars, calls, truncated, words, processed, count, final_words, lay,
          cleaned_text, req, drawn, jobs, objects, backends>>

----------------------------------------------------------------------------
(* Bounds of the model *)

MaxAtoms == 4
MaxLinesBound == 3
MaxTokens == 4
MaxTail == 3
MaxTitleLines == 3
MaxTitleAtoms == 3

(* Program constants *)

DefaultCharsPerLine == 30
MinChars == 10
MaxChars == 100

----------------------------------------------------------------------------
(* Atoms and strings *)

Ch(c) == [k |-> c, n |-> 1, w |-> 0]
Word(kind, len, id) == [k |-> kind, n |-> len, w |-> id]

SP == Ch(" ")
NL == Ch("\n")
COLON == Ch(":")
SEMI == Ch(";")
COMMA == Ch(",")
DOT == Ch(".")

Min(a, b) == IF a <= b THEN a ELSE b
Max(a, b) == IF a >= b THEN a ELSE b

RECURSIVE StrLen(_)
StrLen(s) == IF s = <<>> THEN 0 ELSE Head(s).n + StrLen(Tail(s))

Contains(s, c) == \E i \in 1..Len(s) : s[i].k = c

IsWhitespace(a) == a.k \in {" ", "\n"}

RECURSIVE LStrip(_)
LStrip(s) == IF s # <<>> /\ IsWhitespace(Head(s)) THEN LStrip(Tail(s)) ELSE s

RECURSIVE RStrip(_)
RStrip(s) ==
    IF s # <<>> /\ IsWhitespace(s[Len(s)]) THEN RStrip(SubSeq(s, 1, Len(s) - 1)) ELSE s

Strip(s) == RStrip(LStrip(s))

FirstIndex(s, c) == CHOOSE i \in 1..Len(s) : s[i].k = c /\ \A j \in 1..(i - 1) : s[j].k # c

\* text.split(c, 1) for a text that contains c
SplitFirst(s, c) ==
    LET i == FirstIndex(s, c) IN <<SubSeq(s, 1, i - 1), SubSeq(s, i + 1, Len(s))>>

\* text.split(c): every occurrence splits, empty pieces are kept
RECURSIVE SplitAll(_, _)
SplitAll(s, c) ==
    IF ~Contains(s, c) THEN <<s>>
    ELSE LET p == SplitFirst(s, c) IN <<p[1]>> \o SplitAll(p[2], c)

\* text.split(): maximal runs of non-whitespace characters
RECURSIVE SplitWs(_)
SplitWs(s) ==
    LET t == LStrip(s) IN
    IF t = <<>> THEN <<>>
    ELSE LET stop == IF \E i \in 1..Len(t) : IsWhitespace(t[i])
                     THEN CHOOSE i \in 1..Len(t) :
                              IsWhitespace(t[i]) /\ \A j \in 1..(i - 1) : ~IsWhitespace(t[j])
                     ELSE Len(t) + 1
         IN <<SubSeq(t, 1, stop - 1)>> \o SplitWs(SubSeq(t, stop, Len(t)))

\* re.search(r'[\u0E00-\u0E7F]', text)
IsThai(s) == Contains(s, "thai")

RECURSIVE Concat(_)
Concat(ss) == IF ss = <<>> THEN <<>> ELSE Head(ss) \o Concat(Tail(ss))

----------------------------------------------------------------------------
(* word_tokenize(text, engine="newmm"): every dictionary word is a token,  *)
(* a run of Latin letters is one token, a run of spaces is one token, any  *)
(* other character is a token of its own.  Nothing is dropped.             *)

Mergeable(a, b) == a.k = b.k /\ a.k \in {"latin", " "}

RECURSIVE word_tokenize(_)
word_tokenize(s) ==
    IF s = <<>> THEN <<>>
    ELSE LET rest == word_tokenize(Tail(s)) IN
         IF rest # <<>> /\ Mergeable(Head(s), Head(rest)[1])
         THEN <<(<<Head(s)>> \o Head(rest))>> \o Tail(rest)
         ELSE <<(<<Head(s)>>)>> \o rest

----------------------------------------------------------------------------
(* smart_split_thai_text *)

Punctuation == {",", ".", ":", ";", "?", "!", ")", "]", "}", "\"", "'"}

IsPunctuation(word) == Len(word) = 1 /\ word[1].k \in Punctuation

\* The branch of the punctuation loop taken when current_word is empty
LeadingPunct(acc, word) == [pw |-> Append(acc.pw, word), cw |-> acc.cw]

\* One iteration of `for word in words` of the punctuation loop
ReattachStepNoAttach(acc, word) ==
    IF IsPunctuation(word)
    THEN IF acc.cw # <<>>
         THEN [pw |-> Append(acc.pw, acc.cw), cw |-> word]
         ELSE LeadingPunct(acc, word)
    ELSE [pw |-> IF acc.cw # <<>> THEN Append(acc.pw, acc.cw) ELSE acc.pw,
          cw |-> word]
ReattachStep(acc, word) ==
    IF IsPunctuation(word)
    THEN IF acc.cw # <<>>
         THEN [pw |-> acc.pw, cw |-> acc.cw \o word]
         ELSE LeadingPunct(acc, word)
    ELSE [pw |-> IF acc.cw # <<>> THEN Append(acc.pw, acc.cw) ELSE acc.pw,
          cw |-> word]

RECURSIVE ReattachFold(_, _)
ReattachFold(acc, ws) ==
    IF ws = <<>> THEN acc ELSE ReattachFold(ReattachStep(acc, Head(ws)), Tail(ws))

\* processed_words of the punctuation loop, with the trailing flush
ReattachPunctuation(ws) ==
    LET acc == ReattachFold([pw |-> <<>>, cw |-> <<>>], ws) IN
    IF acc.cw # <<>> THEN Append(acc.pw, acc.cw) ELSE acc.pw

\* `words` as the packing loop sees them
PackWords(s) ==
    IF IsThai(s) THEN ReattachPunctuation(word_tokenize(s)) ELSE SplitWs(s)

\* The joiner of the packing loop
JoinerAlwaysSpace(thai) == <<SP>>
Joiner(thai) == IF thai THEN <<>> ELSE <<SP>>

\* One iteration of `for word in words` of the packing loop
PackStepTestsCurrent(acc, word, thai, limit) ==
    LET test_line == IF acc.cur = <<>> THEN word ELSE acc.cur \o Joiner(thai) \o word IN
    IF StrLen(acc.cur) <= limit
    THEN [ls |-> acc.ls, cur |-> test_line]
    ELSE [ls |-> IF acc.cur # <<>> THEN Append(acc.ls, acc.cur) ELSE acc.ls,
          cur |-> word]
PackStep(acc, word, thai, limit) ==
    LET test_line == IF acc.cur = <<>> THEN word ELSE acc.cur \o Joiner(thai) \o word IN
    IF StrLen(test_line) <= limit
    THEN [ls |-> acc.ls, cur |-> test_line]
    ELSE [ls |-> IF acc.cur # <<>> THEN Append(acc.ls, acc.cur) ELSE acc.ls,
          cur |-> word]

RECURSIVE PackFold(_, _, _, _)
PackFold(acc, ws, thai, limit) ==
    IF ws = <<>> THEN acc
    ELSE PackFold(PackStep(acc, Head(ws), thai, limit), Tail(ws), thai, limit)

\* The general packing loop with its trailing flush
PackLoopNoFlush(s, limit) ==
    PackFold([ls |-> <<>>, cur |-> <<>>], PackWords(s), IsThai(s), limit).ls
PackLoop(s, limit) ==
    LET acc == PackFold([ls |-> <<>>, cur |-> <<>>], PackWords(s), IsThai(s), limit) IN
    IF acc.cur # <<>> THEN Append(acc.ls, acc.cur) ELSE acc.ls

\* `if '\n' in text`
NewlineFirst(s) == Contains(s, "\n")

\* `if len(text) <= max_chars_per_line`
ShortEnoughNever(s, limit) == FALSE
ShortEnough(s, limit) == StrLen(s) <= limit

\* parts = text.split(':', 1); title_part, subtitle_part
ColonPartsUnstripped(s) ==
    LET parts == SplitFirst(s, ":") IN
    [title_part |-> parts[1], subtitle_part |-> parts[2]]
ColonParts(s) ==
    LET parts == SplitFirst(s, ":") IN
    [title_part |-> Strip(parts[1]), subtitle_part |-> Strip(parts[2])]

RECURSIVE smart_split_thai_text(_, _)
smart_split_thai_text(s, limit) ==
    IF NewlineFirst(s) THEN SplitAll(s, "\n")
    ELSE IF ShortEnough(s, limit) THEN <<s>>
    ELSE IF Contains(s, ":")
         THEN LET p == ColonParts(s) IN
              IF StrLen(p.title_part) <= limit /\ StrLen(p.subtitle_part) <= limit
              THEN <<p.title_part, p.subtitle_part>>
              ELSE IF StrLen(p.title_part) <= limit
                   THEN <<p.title_part>> \o smart_split_thai_text(p.subtitle_part, limit)
                   ELSE PackLoop(s, limit)
         ELSE PackLoop(s, limit)

----------------------------------------------------------------------------
(* adaptive_split_thai_text *)

\* `if not text or max_lines <= 0: return []`
EarlyReturnNegativeOnly(s, m) == s = <<>> \/ m < 0
EarlyReturn(s, m) == s = <<>> \/ m <= 0

\* `if len(lines) > max_lines: lines = lines[:max_lines]`
ForceTruncateKeepAll(ls, m) == ls
ForceTruncate(ls, m) == IF Len(ls) > m THEN SubSeq(ls, 1, m) ELSE ls

\* One iteration of the binary search; st = [lo, hi, cpl] holds min_chars,
\* max_chars and chars_per_line
SearchStepSavesAlways(s, m, st) ==
    LET mid_chars == (st.lo + st.hi) \div 2 IN
    IF Len(smart_split_thai_text(s, mid_chars)) <= m
    THEN [lo |-> st.lo, hi |-> mid_chars - 1, cpl |-> mid_chars]
    ELSE [lo |-> mid_chars + 1, hi |-> st.hi, cpl |-> mid_chars]
SearchStepLinear(s, m, st) ==
    LET mid_chars == (st.lo + st.hi) \div 2 IN
    IF Len(smart_split_thai_text(s, mid_chars)) <= m
    THEN [lo |-> st.lo, hi |-> st.hi - 1, cpl |-> mid_chars]
    ELSE [lo |-> st.lo + 1, hi |-> st.hi, cpl |-> st.cpl]
SearchStep(s, m, st) ==
    LET mid_chars == (st.lo + st.hi) \div 2 IN
    IF Len(smart_split_thai_text(s, mid_chars)) <= m
    THEN [lo |-> st.lo, hi |-> mid_chars - 1, cpl |-> mid_chars]
    ELSE [lo |-> mid_chars + 1, hi |-> st.hi, cpl |-> st.cpl]

RECURSIVE Search(_, _, _)
Search(s, m, st) == IF st.lo <= st.hi THEN Search(s, m, SearchStep(s, m, st)) ELSE st.cpl

\* chars_per_line when the while loop has ended
SearchedBudget(s, m) ==
    Search(s, m, [lo |-> MinChars, hi |-> MaxChars, cpl |-> DefaultCharsPerLine])

\* The call as a function of its arguments: the returned list
adaptive_split_thai_text(s, m) ==
    IF EarlyReturn(s, m) THEN <<>>
    ELSE LET first == smart_split_thai_text(s, DefaultCharsPerLine) IN
         IF Len(first) <= m THEN first
         ELSE ForceTruncate(smart_split_thai_text(s, SearchedBudget(s, m)), m)

\* Whether the call executes lines = lines[:max_lines]
Truncates(s, m) ==
    /\ ~EarlyReturn(s, m)
    /\ Len(smart_split_thai_text(s, DefaultCharsPerLine)) > m
    /\ Len(smart_split_thai_text(s, SearchedBudget(s, m))) > m

----------------------------------------------------------------------------
(* Inputs *)

ThaiWord == Word("thai", 11, 1)
ThaiLong == Word("thai", 101, 2)
LatinWord == Word("latin", 16, 3)

Palette == {ThaiWord, ThaiLong, LatinWord, SP, COLON, NL, COMMA}

SeqsUpTo(S, n) == UNION {[1..k -> S] : k \in 0..n}

\* Five tokens, each longer than every budget of the search
FiveLongTokens == <<ThaiLong, ThaiLong, ThaiLong, ThaiLong, ThaiLong>>

Texts == SeqsUpTo(Palette, MaxAtoms) \cup {FiveLongTokens}

NoLayout == [path |-> "none"]
NoRequest == [endpoint |-> "none"]
NoJobs == <<>>
NoObjects == {}
NoBackends == [minio_available |-> FALSE, gcs_accepts |-> FALSE]

----------------------------------------------------------------------------
(* adaptive_split_thai_text, one action per packing pass *)

InitSolve ==
    /\ pc = "solve"
    /\ text \in Texts
    /\ max_lines \in -1..MaxLinesBound
    /\ budget = 0
    /\ lines = <<>>
    /\ chars_per_line = DefaultCharsPerLine
    /\ min_chars = MinChars
    /\ max_chars = MaxChars
    /\ calls = 0
    /\ truncated = FALSE
    /\ words = <<>>
    /\ processed = <<>>
    /\ count = 0
    /\ final_words = <<>>
    /\ lay = NoLayout
    /\ cleaned_text = <<>>
    /\ req = NoRequest
    /\ drawn = <<>>
    /\ jobs = NoJobs
    /\ objects = NoObjects
    /\ backends = NoBackends

\* Entry, the guard, the initial split and the `already fits` return
SolveStart ==
    /\ pc = "solve"
    /\ IF EarlyReturn(text, max_lines)
       THEN /\ lines' = <<>>
            /\ calls' = calls
            /\ pc' = "returned"
       ELSE /\ lines' = smart_split_thai_text(text, DefaultCharsPerLine)
            /\ calls' = calls + 1
            /\ pc' = IF Len(lines') <= max_lines THEN "returned" ELSE "search"
    /\ UNCHANGED <<text, max_lines, budget, chars_per_line, min_chars, max_chars,
                   truncated, words, processed, count, final_words, lay,
                   cleaned_text, req,
                   drawn, jobs, objects, backends>>

\* One iteration of `while min_chars <= max_chars`
SolveIter ==
    /\ pc = "search"
    /\ min_chars <= max_chars
    /\ LET st == SearchStep(text, max_lines,
                            [lo |-> min_chars, hi |-> max_chars, cpl |-> chars_per_line])
       IN /\ lines' = smart_split_thai_text(text, (min_chars + max_chars) \div 2)
          /\ min_chars' = st.lo
          /\ max_chars' = st.hi
          /\ chars_per_line' = st.cpl
    /\ calls' = calls + 1
    /\ UNCHANGED <<pc, text, max_lines, budget, truncated, words, processed, count,
                   final_words, lay,
                   cleaned_text, req,
                   drawn, jobs, objects, backends>>

\* Loop exit, the final split, the forced truncation and the return
SolveFinish ==
    /\ pc = "search"
    /\ min_chars > max_chars
    /\ LET last == smart_split_thai_text(text, chars_per_line) IN
          /\ lines' = ForceTruncate(last, max_lines)
          /\ truncated' = (Len(last) > max_lines)
    /\ calls' = calls + 1
    /\ pc' = "returned"
    /\ UNCHANGED <<text, max_lines, budget, chars_per_line, min_chars, max_chars,
                   words, processed, count, final_words, lay,
                   cleaned_text, req,
                   drawn, jobs, objects, backends>>

NextSolve == SolveStart \/ SolveIter \/ SolveFinish

SpecSolve == InitSolve /\ [][NextSolve]_vars

----------------------------------------------------------------------------
(* Properties of adaptive_split_thai_text *)

Returned == pc = "returned"

\* C1: for every text and every max_lines >= 1 the returned list has at most
\* max_lines entries.
C1_AtMostMaxLines == (Returned /\ max_lines >= 1) => Len(lines) <= max_lines

\* C1 witness: a text with a literal newline and a token longer than 100
\* characters was cut down to max_lines >= 1 lines.
C1_Witness ==
    /\ Returned /\ max_lines >= 1 /\ truncated
    /\ Contains(text, "\n") /\ ThaiLong \in {text[i] : i \in 1..Len(text)}
    /\ Len(lines) = max_lines

\* C2: max_lines <= 0 or an empty text gives the empty list, and the packer
\* is never invoked.
C2_DegenerateEmpty ==
    (Returned /\ (max_lines <= 0 \/ text = <<>>)) => (lines = <<>> /\ calls = 0)

\* C2 witness: a non-empty text with max_lines = 0 has returned.
C2_Witness == Returned /\ max_lines = 0 /\ text # <<>> /\ lines = <<>>

\* No budget of the search range (which holds the default 30) fits
NoBudgetFits(s, m) ==
    /\ Len(smart_split_thai_text(s, MaxChars)) > m
    /\ \A b \in MinChars..MaxChars : Len(smart_split_thai_text(s, b)) > m

\* C3: when no budget in [10,100] packs into <= max_lines lines, the result
\* is exactly the first max_lines lines of the packing at budget 30.
C3_TruncatesDefaultPacking ==
    (Returned /\ ~EarlyReturn(text, max_lines) /\ NoBudgetFits(text, max_lines))
        => /\ Len(lines) = max_lines
           /\ lines = SubSeq(smart_split_thai_text(text, DefaultCharsPerLine), 1, max_lines)

\* C3 witness: five tokens longer than every budget, max_lines = 2, returned
\* as two lines.
C3_Witness ==
    /\ Returned /\ text = FiveLongTokens /\ max_lines = 2
    /\ NoBudgetFits(text, max_lines)
    /\ lines = <<(<<ThaiLong>>), (<<ThaiLong>>)>>

\* A text whose lines are given verbatim by literal newlines
RECURSIVE JoinNewline(_)
JoinNewline(ls) ==
    IF ls = <<>> THEN <<>>
    ELSE IF Len(ls) = 1 THEN ls[1]
    ELSE ls[1] \o <<NL>> \o JoinNewline(Tail(ls))

\* C4: a force-truncated result is flagged: the returned value differs from
\* every value a call that did not truncate returns.
C4_TruncationFlagged ==
    (Returned /\ truncated)
        => ~(/\ ~Truncates(JoinNewline(lines), max_lines)
             /\ adaptive_split_thai_text(JoinNewline(lines), max_lines) = lines)

\* The budgets of the search range whose packing has at most m lines
FittingBudgets(s, m) ==
    {b \in MinChars..MaxChars : Len(smart_split_thai_text(s, b)) <= m}

\* The case C16 is about: the default packing has too many lines and some
\* budget of the search range fits
SearchNeeded ==
    /\ ~EarlyReturn(text, max_lines)
    /\ Len(smart_split_thai_text(text, DefaultCharsPerLine)) > max_lines
    /\ FittingBudgets(text, max_lines) # {}

\* C16: when the packing at the default budget 30 has more than max_lines
\* lines and some budget in [10,100] fits, the call returns exactly
\* pack(text, b*), b* being the smallest budget in [10,100] that fits.
C16_SmallestFittingBudget ==
    (Returned /\ SearchNeeded) =>
        LET fit == FittingBudgets(text, max_lines)
            smallest == CHOOSE b \in fit : \A c \in fit : b <= c
        IN lines = smart_split_thai_text(text, smallest)

\* What is left of the call: 0 once it has returned, otherwise bounded by
\* the width of the search interval
SolveMeasure ==
    CASE pc = "solve" -> (MaxChars - MinChars) + 3
      [] pc = "search" -> (max_chars - min_chars) + 2
      [] OTHER -> 0

\* C17: the call always terminates: until it has returned the guard of one
\* of its steps holds and every step brings the return nearer; each
\* iteration of the binary search over [10,100] strictly narrows the
\* interval, there are at most 7 search passes, and the call invokes the
\* packer at most 9 times (initial pass, search passes, final re-pack).
C17_TerminatesWithinNineCalls ==
    /\ [](/\ calls <= 9
          /\ pc = "search" => calls - 1 <= 7
          /\ SolveMeasure >= 0
          /\ ~Returned => \/ pc = "solve"
                          \/ pc = "search" /\ min_chars <= max_chars
                          \/ pc = "search" /\ min_chars > max_chars)
    /\ [][/\ SolveMeasure' < SolveMeasure
          /\ (pc = "search" /\ pc' = "search")
                 => max_chars' - min_chars' < max_chars - min_chars]_vars

\* C17 witness: a call that returned after the initial pass, 7 search passes
\* and the final re-pack.
C17_Witness == Returned /\ calls = 9 /\ min_chars > max_chars

\* The lines are consecutive groups of the tokens, in order, every token in
\* exactly one line: a line of a Thai text is its tokens concatenated, a
\* line of another text splits at whitespace into its tokens
RECURSIVE EveryTokenOnce(_, _, _)
EveryTokenOnce(toks, ls, thai) ==
    IF ls = <<>> THEN toks = <<>>
    ELSE \E k \in 0..Len(toks) :
            /\ IF thai THEN Concat(SubSeq(toks, 1, k)) = ls[1]
               ELSE SplitWs(ls[1]) = SubSeq(toks, 1, k)
            /\ EveryTokenOnce(SubSeq(toks, k + 1, Len(toks)), Tail(ls), thai)

\* C28: for a text without newline or colon, if some budget in [10,100]
\* packs the text into at most max_lines lines, the call does not truncate
\* and the returned lines contain every token of the text exactly once and
\* in order.
C28_NoContentDroppedWhenFeasible ==
    (/\ Returned /\ ~Contains(text, "\n") /\ ~Contains(text, ":")
     /\ FittingBudgets(text, max_lines) # {})
        => /\ ~truncated
           /\ EveryTokenOnce(PackWords(text), lines, IsThai(text))

\* C28 witness: the default packing had too many lines, the search found a
\* budget that fits, and the two returned lines hold all four tokens.
C28_Witness ==
    /\ Returned /\ ~Contains(text, "\n") /\ ~Contains(text, ":")
    /\ calls > 1 /\ ~truncated
    /\ Len(PackWords(text)) = 4 /\ Len(lines) = 2 /\ max_lines = 2
    /\ EveryTokenOnce(PackWords(text), lines, IsThai(text))

----------------------------------------------------------------------------
(* smart_split_thai_text as a call of its own *)

\* "Title: Subtitle"
TitleSubtitle == <<Word("latin", 5, 4), COLON, SP, Word("latin", 8, 5)>>

PackTexts == SeqsUpTo(Palette, MaxAtoms) \cup {TitleSubtitle}
PackBudgets == {10, 20, DefaultCharsPerLine, MaxChars}

InitPack ==
    /\ pc = "pack"
    /\ text \in PackTexts
    /\ budget \in PackBudgets
    /\ max_lines = 0
    /\ lines = <<>>
    /\ chars_per_line = DefaultCharsPerLine
    /\ min_chars = MinChars
    /\ max_chars = MaxChars
    /\ calls = 0
    /\ truncated = FALSE
    /\ words = <<>>
    /\ processed = <<>>
    /\ count = 0
    /\ final_words = <<>>
    /\ lay = NoLayout
    /\ cleaned_text = <<>>
    /\ req = NoRequest
    /\ drawn = <<>>
    /\ jobs = NoJobs
    /\ objects = NoObjects
    /\ backends = NoBackends

Pack ==
    /\ pc = "pack"
    /\ lines' = smart_split_thai_text(text, budget)
    /\ calls' = calls + 1
    /\ pc' = "packed"
    /\ UNCHANGED <<text, max_lines, budget, chars_per_line, min_chars, max_chars,
                   truncated, words, processed, count, final_words, lay,
                   cleaned_text, req,
                   drawn, jobs, objects, backends>>

NextPack == Pack

SpecPack == InitPack /\ [][NextPack]_vars

Packed == pc = "packed"

\* C5 as stated: every text of length <= max_chars_per_line comes back as
\* exactly one line equal to the text.
C5_ShortTextOneLine == (Packed /\ StrLen(text) <= budget) => lines = <<text>>

\* C5 amended: every text without a literal newline and of length
\* <= max_chars_per_line comes back as exactly one line equal to the text.
C5_ShortTextOneLineNoNewline ==
    (Packed /\ StrLen(text) <= budget /\ ~Contains(text, "\n")) => lines = <<text>>

\* C5 witness: "Title: Subtitle" at budget 30 came back as one line.
C5_Witness ==
    Packed /\ text = TitleSubtitle /\ budget = DefaultCharsPerLine /\ lines = <<text>>

\* The precondition of the colon rule as C6 gives it
ColonPartsFit(s, limit) ==
    /\ Contains(s, ":") /\ ~Contains(s, "\n")
    /\ StrLen(Strip(SplitFirst(s, ":")[1])) <= limit
    /\ StrLen(Strip(SplitFirst(s, ":")[2])) <= limit

TwoColonLines(s) == <<Strip(SplitFirst(s, ":")[1]), Strip(SplitFirst(s, ":")[2])>>

\* C6 as stated: a text with a colon, no newline and both stripped parts
\* within the budget gives exactly the two stripped parts.
C6_ColonTwoLines == (Packed /\ ColonPartsFit(text, budget)) => lines = TwoColonLines(text)

\* C6 amended: the same for a text that is longer than the budget.
C6_ColonTwoLinesLongText ==
    (Packed /\ ColonPartsFit(text, budget) /\ StrLen(text) > budget)
        => lines = TwoColonLines(text)

\* C6 witness: a Thai text longer than the budget, with a space after the
\* colon, came back as its two stripped parts.
C6_Witness ==
    /\ Packed /\ ColonPartsFit(text, budget) /\ StrLen(text) > budget
    /\ IsThai(text) /\ Len(text) >= 4 /\ text[3] = SP
    /\ lines = TwoColonLines(text) /\ Len(lines[2]) = Len(text) - 3

\* The colon rule returns before the packing loop
ColonRuleFires(s, limit) ==
    /\ Contains(s, ":") /\ StrLen(s) > limit
    /\ StrLen(Strip(SplitFirst(s, ":")[1])) <= limit

\* A line made of the tokens `group`
LineOf(group, line, thai) ==
    IF thai THEN Concat(group) = line ELSE SplitWs(line) = group

\* The lines are consecutive groups of whole tokens, in order, every token in
\* exactly one line, and a line of more than one token fits the budget
RECURSIVE TokenGroups(_, _, _, _)
TokenGroups(toks, ls, thai, limit) ==
    IF ls = <<>> THEN toks = <<>>
    ELSE \E k \in 0..Len(toks) :
            /\ LineOf(SubSeq(toks, 1, k), ls[1], thai)
            /\ (k = 1 \/ StrLen(ls[1]) <= limit)
            /\ TokenGroups(SubSeq(toks, k + 1, Len(toks)), Tail(ls), thai, limit)

\* C7 as stated: for text without a newline every returned line fits the
\* budget or is exactly one token of the text.
C7_LineFitsOrOneToken ==
    (Packed /\ ~Contains(text, "\n"))
        => \A i \in 1..Len(lines) :
              \/ StrLen(lines[i]) <= budget
              \/ \E j \in 1..Len(PackWords(text)) : PackWords(text)[j] = lines[i]

\* C7 amended: for text without a newline that the colon rule does not
\* intercept, the lines are groups of whole tokens: a line fits the budget or
\* is exactly one token, and no token is split across lines.
C7_WholeTokensOutsideColonRule ==
    (Packed /\ ~Contains(text, "\n") /\ ~ColonRuleFires(text, budget))
        => TokenGroups(PackWords(text), lines, IsThai(text), budget)

\* C7 witness: the packing loop produced an overflowing one-token line and a
\* fitting line of several tokens.
C7_Witness ==
    /\ Packed /\ ~Contains(text, "\n") /\ ~ColonRuleFires(text, budget)
    /\ Len(PackWords(text)) >= 3
    /\ \E i \in 1..Len(lines) : StrLen(lines[i]) > budget
    /\ \E i \in 1..Len(lines) : Len(lines[i]) >= 2 /\ StrLen(lines[i]) <= budget

\* The call reaches the general packing loop
GeneralLoop(s, limit) ==
    /\ ~NewlineFirst(s)
    /\ ~ShortEnough(s, limit)
    /\ ~ColonRuleFires(s, limit)

\* The tokens of `group` joined as C20 describes: nothing before a
\* Thai-script token, one space before any other token
RECURSIVE JoinPerToken(_)
JoinPerToken(group) ==
    IF Len(group) <= 1 THEN Concat(group)
    ELSE LET last == group[Len(group)] IN
         JoinPerToken(SubSeq(group, 1, Len(group) - 1))
             \o (IF IsThai(last) THEN <<>> ELSE <<SP>>) \o last

\* The tokens of `group` joined by one joiner chosen for the whole text:
\* nothing when the text has a Thai character, one space otherwise
RECURSIVE JoinPerText(_, _)
JoinPerText(group, thai) ==
    IF Len(group) <= 1 THEN Concat(group)
    ELSE JoinPerText(SubSeq(group, 1, Len(group) - 1), thai)
             \o (IF thai THEN <<>> ELSE <<SP>>) \o group[Len(group)]

\* The lines are consecutive non-empty groups of the tokens, each joined
\* per token (per_token) or per text
RECURSIVE JoinedGroups(_, _, _, _)
JoinedGroups(toks, ls, per_token, thai) ==
    IF ls = <<>> THEN toks = <<>>
    ELSE \E k \in 1..Len(toks) :
            /\ ls[1] = IF per_token THEN JoinPerToken(SubSeq(toks, 1, k))
                       ELSE JoinPerText(SubSeq(toks, 1, k), thai)
            /\ JoinedGroups(SubSeq(toks, k + 1, Len(toks)), Tail(ls), per_token, thai)

\* C20 as stated: in the general packing loop the joiner before a token
\* appended to a non-empty line is chosen per token, empty for a Thai-script
\* token and one space otherwise, so that Latin tokens of a mixed-script
\* text are separated by one space.
C20_JoinerPerToken ==
    (Packed /\ GeneralLoop(text, budget))
        => JoinedGroups(PackWords(text), lines, TRUE, IsThai(text))

\* C20 amended: the joiner is chosen once for the whole text, empty when
\* the text has a Thai character and one space otherwise; the lines of a
\* text with a Thai character are its tokens concatenated with nothing
\* added, before Latin tokens too.
C20_JoinerPerText ==
    (Packed /\ GeneralLoop(text, budget))
        => /\ JoinedGroups(PackWords(text), lines, FALSE, IsThai(text))
           /\ IsThai(text) => Concat(lines) = Concat(PackWords(text))

\* C20 witness: a Latin word was appended to a line holding a Thai word with
\* no space between the two.
C20_Witness ==
    /\ Packed /\ GeneralLoop(text, budget)
    /\ text = <<ThaiWord, LatinWord, SP, ThaiWord>> /\ budget = DefaultCharsPerLine
    /\ lines = <<(<<ThaiWord, LatinWord, SP>>), (<<ThaiWord>>)>>

----------------------------------------------------------------------------
(* The punctuation loop of smart_split_thai_text as a step of its own *)

Hello == Word("latin", 5, 4)
World == Word("latin", 5, 6)

TokenPalette == {<<Hello>>, <<World>>, <<ThaiWord>>, <<COMMA>>, <<DOT>>}

InitReattach ==
    /\ pc = "reattach"
    /\ words \in SeqsUpTo(TokenPalette, MaxTokens)
    /\ processed = <<>>
    /\ text = <<>>
    /\ budget = 0
    /\ max_lines = 0
    /\ lines = <<>>
    /\ chars_per_line = DefaultCharsPerLine
    /\ min_chars = MinChars
    /\ max_chars = MaxChars
    /\ calls = 0
    /\ truncated = FALSE
    /\ count = 0
    /\ final_words = <<>>
    /\ lay = NoLayout
    /\ cleaned_text = <<>>
    /\ req = NoRequest
    /\ drawn = <<>>
    /\ jobs = NoJobs
    /\ objects = NoObjects
    /\ backends = NoBackends

Reattach ==
    /\ pc = "reattach"
    /\ processed' = ReattachPunctuation(words)
    /\ pc' = "reattached"
    /\ UNCHANGED <<text, max_lines, budget, lines, chars_per_line, min_chars, max_chars,
                   calls, truncated, words, count, final_words, lay,
                   cleaned_text, req,
                   drawn, jobs, objects, backends>>

NextReattach == Reattach

SpecReattach == InitReattach /\ [][NextReattach]_vars

Reattached == pc = "reattached"

\* The mapping C8 describes: a punctuation token is concatenated onto the
\* last emitted token; having no predecessor it is emitted as it is
RECURSIVE AttachToPreceding(_, _)
AttachToPreceding(out, ws) ==
    IF ws = <<>> THEN out
    ELSE IF IsPunctuation(Head(ws)) /\ out # <<>>
         THEN AttachToPreceding([out EXCEPT ![Len(out)] = @ \o Head(ws)], Tail(ws))
         ELSE AttachToPreceding(Append(out, Head(ws)), Tail(ws))

\* The same, except that the punctuation tokens in front of the first other
\* token are each emitted as they are
RECURSIVE AttachAfterWord(_, _, _)
AttachAfterWord(out, seen, ws) ==
    IF ws = <<>> THEN out
    ELSE IF IsPunctuation(Head(ws)) /\ seen
         THEN AttachAfterWord([out EXCEPT ![Len(out)] = @ \o Head(ws)], seen, Tail(ws))
         ELSE AttachAfterWord(Append(out, Head(ws)),
                              seen \/ ~IsPunctuation(Head(ws)), Tail(ws))

----------------------------------------------------------------------------
(* clean_title_text, the same function in the image and the video module *)

\* text.replace(c, '')
RemoveChar(s, c) == SelectSeq(s, LAMBDA a : a.k # c)

\* parts = text.split(c, 1); f"{parts[0].strip()} {parts[1].strip()}"
JoinFirstSplit(s, c) ==
    LET parts == SplitFirst(s, c) IN Strip(parts[1]) \o <<SP>> \o Strip(parts[2])

clean_title_text(s) ==
    LET removed == RemoveChar(RemoveChar(s, ":"), ";")
        colon_joined == IF Contains(s, ":") THEN JoinFirstSplit(s, ":") ELSE removed
        semi_joined == IF Contains(colon_joined, ";")
                       THEN JoinFirstSplit(colon_joined, ";")
                       ELSE colon_joined
    IN IF IsThai(s) THEN semi_joined ELSE removed

CleanPalette == {ThaiWord, LatinWord, SP, COLON, SEMI}
CleanTexts == SeqsUpTo(CleanPalette, MaxAtoms)

InitClean ==
    /\ pc = "clean"
    /\ text \in CleanTexts
    /\ cleaned_text = <<>>
    /\ budget = 0
    /\ max_lines = 0
    /\ lines = <<>>
    /\ chars_per_line = DefaultCharsPerLine
    /\ min_chars = MinChars
    /\ max_chars = MaxChars
    /\ calls = 0
    /\ truncated = FALSE
    /\ words = <<>>
    /\ processed = <<>>
    /\ count = 0
    /\ final_words = <<>>
    /\ lay = NoLayout
    /\ req = NoRequest
    /\ drawn = <<>>
    /\ jobs = NoJobs
    /\ objects = NoObjects
    /\ backends = NoBackends

Clean ==
    /\ pc = "clean"
    /\ cleaned_text' = clean_title_text(text)
    /\ pc' = "cleaned"
    /\ UNCHANGED <<text, max_lines, budget, lines, chars_per_line, min_chars, max_chars,
                   calls, truncated, words, processed, count, final_words, lay, req,
                   drawn, jobs, objects, backends>>

NextClean == Clean

SpecClean == InitClean /\ [][NextClean]_vars

Cleaned == pc = "cleaned"

\* C15: for every input text, Thai or not, with any number of colons and
\* semicolons, the text clean_title_text returns contains no ':' and no ';'.
C15_NoColonNoSemicolon ==
    Cleaned => ~Contains(cleaned_text, ":") /\ ~Contains(cleaned_text, ";")

----------------------------------------------------------------------------
(* find_important_words.  Scores are kept in tenths, proximity scores in    *)
(* hundredths, so that the arithmetic is exact.                             *)

\* 'และ', one of the 40 entries of stop_words
StopWord == Word("thai", 3, 10)
StopWords == {<<StopWord>>}

\* seq[:k]
PySlice(seq, k) ==
    IF k >= 0 THEN SubSeq(seq, 1, Min(k, Len(seq)))
    ELSE SubSeq(seq, 1, Max(Len(seq) + k, 0))

\* The distinct elements of seq in the order of their first occurrence
\* (the key order of a dict filled while iterating seq)
RECURSIVE KeyOrder(_)
KeyOrder(seq) ==
    IF seq = <<>> THEN <<>>
    ELSE LET init == KeyOrder(SubSeq(seq, 1, Len(seq) - 1))
             last == seq[Len(seq)]
         IN IF \E i \in 1..Len(init) : init[i] = last THEN init ELSE Append(init, last)

\* sorted(items, key=score, reverse=True): descending, equal scores keep
\* their order
SortDesc(keys, score) ==
    LET n == Len(keys)
        Before(i, j) == score[i] > score[j] \/ (score[i] = score[j] /\ i < j)
        Rank(i) == 1 + Cardinality({j \in 1..n : Before(j, i)})
    IN [p \in 1..n |-> keys[CHOOSE i \in 1..n : Rank(i) = p]]

Abs(x) == IF x < 0 THEN -x ELSE x

FilteredWords(toks) ==
    SelectSeq(toks, LAMBDA w : w \notin StopWords /\ StrLen(w) > 1)

\* word_positions[word]
Positions(toks, word) == {i - 1 : i \in {j \in 1..Len(toks) : toks[j] = word}}

\* word_scores[word], in tenths
WordScoreLengthOnly(filtered, word) == 5 + Min(StrLen(word), 10)
WordScore(filtered, word) ==
    Cardinality({i \in 1..Len(filtered) : filtered[i] = word})
        * (5 + Min(StrLen(word), 10))

\* max_highlights
MaxHighlights(filtered, cnt) ==
    IF Len(filtered) < 10 THEN Min(Min(cnt, 2), 1) ELSE Min(cnt, 2)

\* min_distance between a candidate and the first selected word
MinDistance(toks, first_word, word) ==
    LET ds == {Abs(p1 - p2) : p1 \in Positions(toks, first_word),
                              p2 \in Positions(toks, word)}
    IN CHOOSE d \in ds : \A e \in ds : d <= e

\* proximity_scores[word], in hundredths
ProximityScoreIgnoresDistance(toks, filtered, first_word, word) ==
    10 * WordScore(filtered, word)
ProximityScore(toks, filtered, first_word, word) ==
    LET d == MinDistance(toks, first_word, word) IN
    IF d <= 5 THEN 2 * WordScore(filtered, word) * (10 - d)
    ELSE 5 * WordScore(filtered, word)

find_important_words(s, cnt) ==
    LET toks == word_tokenize(s)
        filtered == FilteredWords(toks)
        keys == SelectSeq(KeyOrder(filtered), LAMBDA w : StrLen(w) >= 2)
        sorted_words == SortDesc(keys, [i \in 1..Len(keys) |-> WordScore(filtered, keys[i])])
        max_highlights == MaxHighlights(filtered, cnt)
        candidate_words == PySlice(sorted_words, max_highlights * 2)
        rest == Tail(candidate_words)
        proximity_sorted ==
            SortDesc(rest, [i \in 1..Len(rest) |->
                               ProximityScore(toks, filtered, candidate_words[1], rest[i])])
    IN IF Len(candidate_words) > 0
       THEN IF max_highlights > 1 /\ Len(candidate_words) > 1
            THEN <<candidate_words[1], proximity_sorted[1]>>
            ELSE <<candidate_words[1]>>
       ELSE <<>>

WordA == Word("thai", 4, 11)
WordB == Word("thai", 6, 12)
WordC == Word("thai", 10, 13)

RankPalette == {WordA, WordB, WordC, StopWord, SP}

\* Eight words that pass the filter
Filler == <<WordA, WordB, WordC, WordA, WordB, WordC, WordA, WordB>>

\* Ten words that pass the filter, the first one more than 5 tokens away
\* from the others
FarFiller == <<WordB, StopWord, StopWord, StopWord, StopWord, StopWord,
               WordC, WordC, WordC, WordC, WordC, WordC, WordC, WordC, WordC>>

RankTexts ==
    {pre \o tl : pre \in {<<>>, Filler, FarFiller}, tl \in SeqsUpTo(RankPalette, MaxTail)}

InitRank ==
    /\ pc = "rank"
    /\ text \in RankTexts
    /\ count \in -1..3
    /\ final_words = <<>>
    /\ budget = 0
    /\ max_lines = 0
    /\ lines = <<>>
    /\ chars_per_line = DefaultCharsPerLine
    /\ min_chars = MinChars
    /\ max_chars = MaxChars
    /\ calls = 0
    /\ truncated = FALSE
    /\ words = <<>>
    /\ processed = <<>>
    /\ lay = NoLayout
    /\ cleaned_text = <<>>
    /\ req = NoRequest
    /\ drawn = <<>>
    /\ jobs = NoJobs
    /\ objects = NoObjects
    /\ backends = NoBackends

Rank ==
    /\ pc = "rank"
    /\ final_words' = find_important_words(text, count)
    /\ pc' = "ranked"
    /\ UNCHANGED <<text, max_lines, budget, lines, chars_per_line, min_chars, max_chars,
                   calls, truncated, words, processed, count, lay,
                   cleaned_text, req,
                   drawn, jobs, objects, backends>>

NextRank == Rank

SpecRank == InitRank /\ [][NextRank]_vars

Ranked == pc = "ranked"

\* C9: for every text and every integer count, at most min(count, 2) words
\* are returned (none when that is negative), and at most one word when fewer
\* than 10 tokens pass the filter.
C9_AtMostMinCountTwo ==
    Ranked => /\ Len(final_words) <= Max(Min(count, 2), 0)
              /\ (Len(FilteredWords(word_tokenize(text))) < 10 => Len(final_words) <= 1)

\* The tokens that may be highlighted: not a stop word, 2 characters or more
Eligible(toks) ==
    {toks[i] : i \in {j \in 1..Len(toks) : toks[j] \notin StopWords /\ StrLen(toks[j]) >= 2}}

\* frequency * (0.5 + min(length, 10)/10), in tenths
Score10(toks, w) ==
    Cardinality({i \in 1..Len(toks) : toks[i] = w}) * (5 + Min(StrLen(w), 10))

FirstOccurrence(toks, w) == CHOOSE i \in 1..Len(toks) : toks[i] = w /\ \A j \in 1..(i - 1) : toks[j] # w

Candidates(s, cnt) ==
    LET filtered == FilteredWords(word_tokenize(s))
        keys == SelectSeq(KeyOrder(filtered), LAMBDA w : StrLen(w) >= 2)
        ranked == SortDesc(keys, [i \in 1..Len(keys) |-> WordScore(filtered, keys[i])])
    IN PySlice(ranked, MaxHighlights(filtered, cnt) * 2)

\* score * (1 + (5 - d) * 0.2) for d <= 5 and score * 0.5 otherwise, in
\* hundredths; d is the least token-index distance to the first word
Adjusted100(toks, first, w) ==
    LET d == MinDistance(toks, first, w) IN
    IF d <= 5 THEN Score10(toks, w) * (10 + ((5 - d) * 2)) ELSE Score10(toks, w) * 5

\* C23: when two words are returned, the second differs from the first and
\* is, among the top 2*max_highlights scored words other than the first, one
\* with the highest proximity-adjusted score.
C23_SecondWordByProximity ==
    (Ranked /\ Len(final_words) = 2) =>
        LET toks == word_tokenize(text)
            cands == Candidates(text, count)
            others == {cands[i] : i \in 2..Len(cands)}
        IN /\ final_words[2] # final_words[1]
           /\ final_words[1] = cands[1]
           /\ final_words[2] \in others
           /\ \A w \in others :
                 Adjusted100(toks, final_words[1], final_words[2])
                     >= Adjusted100(toks, final_words[1], w)

\* C23 witness: the 4-character word next to the first word was returned
\* second, although the 6-character word, more than 5 tokens away, has the
\* higher score.
C23_Witness ==
    /\ Ranked /\ final_words = <<(<<WordC>>), (<<WordA>>)>>
    /\ LET toks == word_tokenize(text) IN
          /\ <<WordB>> \in Eligible(toks)
          /\ Score10(toks, <<WordB>>) > Score10(toks, <<WordA>>)
          /\ MinDistance(toks, <<WordC>>, <<WordB>>) > 5
          /\ MinDistance(toks, <<WordC>>, <<WordA>>) <= 5

----------------------------------------------------------------------------
(* The drawing of one title line in process_add_title_to_image.  Widths    *)
(* are counted in character advances: every character, the space          *)
(* included, advances the pen by one unit.                                 *)

\* draw.textlength(s, font=font)
textlength(s) == StrLen(s)

\* `highlight_word.lower() in word.lower()`
HasSubstring(s, sub) ==
    \E i \in 0..(Len(s) - Len(sub)) : SubSeq(s, i + 1, i + Len(sub)) = sub

\* `highlight_words and any(word.lower() in line.lower() for word in highlight_words)`
LineHighlighted(line, highlight_words) ==
    \E i \in 1..Len(highlight_words) : HasSubstring(line, highlight_words[i])

\* re.findall(r'[\u0E00-\u0E7F]+|[^\s]+', line), every match with its
\* character offset in the line: a match that starts on a Thai character
\* is the run of Thai characters, any other match runs up to the next
\* whitespace
RECURSIVE FindRuns(_, _)
FindRuns(s, offset) ==
    IF s = <<>> THEN <<>>
    ELSE IF IsWhitespace(Head(s)) THEN FindRuns(Tail(s), offset + Head(s).n)
    ELSE LET thai == Head(s).k = "thai"
             Stops(i) == IF thai THEN s[i].k # "thai" ELSE IsWhitespace(s[i])
             stop == IF \E i \in 1..Len(s) : Stops(i)
                     THEN CHOOSE i \in 1..Len(s) : Stops(i) /\ \A j \in 1..(i - 1) : ~Stops(j)
                     ELSE Len(s) + 1
             run == SubSeq(s, 1, stop - 1)
         IN <<[word |-> run, offset |-> offset]>>
                \o FindRuns(SubSeq(s, stop, Len(s)), offset + StrLen(run))

\* The loop `for word in words`: each run is drawn at current_x, which then
\* advances by textlength(word + ' ')
RECURSIVE DrawWords(_, _, _)
DrawWords(runs, current_x, highlight_words) ==
    IF runs = <<>> THEN <<>>
    ELSE LET word == Head(runs).word
             word_color == IF LineHighlighted(word, highlight_words)
                           THEN "highlight_color" ELSE "font_color"
             word_width == textlength(word \o <<SP>>)
         IN <<[word |-> word, x |-> current_x, color |-> word_color]>>
                \o DrawWords(Tail(runs), current_x + word_width, highlight_words)

\* What is drawn in the font or highlight colour for one line
DrawLine(line, x_pos, highlight_words) ==
    IF LineHighlighted(line, highlight_words)
    THEN DrawWords(FindRuns(line, 0), x_pos, highlight_words)
    ELSE <<[word |-> line, x |-> x_pos, color |-> "font_color"]>>

DrawPalette == {ThaiWord, LatinWord, SP}
DrawLines == SeqsUpTo(DrawPalette, MaxAtoms)
HighlightLists ==
    {<<>>, <<(<<ThaiWord>>)>>, <<(<<LatinWord>>)>>, <<(<<ThaiWord>>), (<<LatinWord>>)>>}

\* left_margin and a centred position
XPositions == {30, 200}

InitDraw ==
    /\ pc = "draw"
    /\ text \in DrawLines
    /\ final_words \in HighlightLists
    /\ lay \in {[path |-> "draw", x_pos |-> x] : x \in XPositions}
    /\ drawn = <<>>
    /\ cleaned_text = <<>>
    /\ budget = 0
    /\ max_lines = 0
    /\ lines = <<>>
    /\ chars_per_line = DefaultCharsPerLine
    /\ min_chars = MinChars
    /\ max_chars = MaxChars
    /\ calls = 0
    /\ truncated = FALSE
    /\ words = <<>>
    /\ processed = <<>>
    /\ count = 0
    /\ req = NoRequest
    /\ jobs = NoJobs
    /\ objects = NoObjects
    /\ backends = NoBackends

\* One iteration of `for i, line in enumerate(title_lines)`
Draw ==
    /\ pc = "draw"
    /\ drawn' = DrawLine(text, lay.x_pos, final_words)
    /\ pc' = "drawn"
    /\ UNCHANGED <<text, max_lines, budget, lines, chars_per_line, min_chars, max_chars,
                   calls, truncated, words, processed, count, final_words, lay,
                   cleaned_text, req, jobs, objects, backends>>

NextDraw == Draw

SpecDraw == InitDraw /\ [][NextDraw]_vars

Drawn == pc = "drawn"

\* The whitespace of the line between its runs i and i+1, in characters
SpaceBetween(runs, i) == runs[i + 1].offset - (runs[i].offset + StrLen(runs[i].word))

\* The pen distance left between the drawn runs i and i+1
GapBetween(d, i) == d[i + 1].x - (d[i].x + StrLen(d[i].word))

\* C21: when a line containing a highlight word is drawn as sub-runs, no
\* space is left between two runs that are adjacent without whitespace in
\* the line, and exactly one space is left between runs separated by one
\* space, so that the drawn runs reproduce the line.
C21_RunSpacingFollowsLine ==
    (Drawn /\ LineHighlighted(text, final_words)) =>
        LET runs == FindRuns(text, 0) IN
        /\ Len(drawn) = Len(runs)
        /\ \A i \in 1..(Len(drawn) - 1) :
              SpaceBetween(runs, i) \in {0, 1} => GapBetween(drawn, i) = SpaceBetween(runs, i)

----------------------------------------------------------------------------
(* The padding arithmetic of process_add_title_to_image and                *)
(* process_add_title.  padding_multiplier is kept in tenths (pm10).         *)

\* int(x) of the quotient a / b: truncation towards zero
TruncDiv(a, b) == IF a >= 0 THEN a \div b ELSE -((-a) \div b)

\* line_spacing = int(font_size * 0.3)
LineSpacing(font_size) == TruncDiv(font_size * 3, 10)

\* extra_padding = int(font_size * padding_multiplier)
ExtraPadding(font_size, pm10) == TruncDiv(font_size * pm10, 10)

\* total_text_height
TotalTextHeight(total_lines, font_size) ==
    (total_lines * font_size) + ((total_lines - 1) * LineSpacing(font_size))

\* min_required_padding
MinRequiredPaddingOneSide(total_lines, font_size, pm10) ==
    TotalTextHeight(total_lines, font_size) + ExtraPadding(font_size, pm10)
MinRequiredPadding(total_lines, font_size, pm10) ==
    TotalTextHeight(total_lines, font_size) + (ExtraPadding(font_size, pm10) * 2)

\* if padding < min_required_padding: padding = min_required_padding
ResolvedPaddingKeepsCaller(caller_padding, min_required_padding) == caller_padding
ResolvedPadding(caller_padding, min_required_padding) ==
    IF caller_padding < min_required_padding THEN min_required_padding
    ELSE caller_padding

\* max_text_width > (original_width * 0.9)
TooWide(max_text_width, original_width) == 10 * max_text_width > 9 * original_width

\* new_font_size = int(font_size * ((original_width * 0.9) / max_text_width))
ShrunkFontSizeFullWidth(font_size, original_width, max_text_width) ==
    TruncDiv(font_size * original_width, max_text_width)
ShrunkFontSize(font_size, original_width, max_text_width) ==
    TruncDiv(font_size * 9 * original_width, 10 * max_text_width)

\* y_pos of each line in the drawing loop
LinePositions(total_lines, y_start, font_size, line_spacing) ==
    [i \in 1..total_lines |-> y_start + ((i - 1) * (font_size + line_spacing))]

FontSizes == {10, 33, 50, 64}
PaddingMultipliers10 == {0, 5, 10}
CallerPaddings == {0, 180, 200, 1000}
MediaHeights == {1, 100, 400, 1920}
OriginalWidths == {500, 1000}
TextWidths == {450, 950, 1800}

\* The locals of one layout call before the arithmetic has run.  The widest
\* line of an empty list of lines measures 0; the video path measures
\* nothing.
LayoutInputs ==
    {r \in [path : {"image", "video"},
            font_size : FontSizes,
            pm10 : PaddingMultipliers10,
            total_lines : 0..MaxTitleLines,
            caller_padding : CallerPaddings,
            original_height : MediaHeights,
            original_width : OriginalWidths,
            max_text_width : TextWidths \cup {0},
            raised_padding : {0},
            padding : {0},
            line_spacing : {0},
            total_text_height : {0},
            extra_padding : {0},
            min_required_padding : {0},
            media_height : {0},
            y_start : {0},
            new_font_size : {0},
            draw_line_spacing : {0},
            y_pos : {<<>>}] :
        /\ r.path = "video" => r.original_width = 1000 /\ r.max_text_width = 0
        /\ r.path = "image" => (r.max_text_width = 0 <=> r.total_lines = 0)}

InitLayout ==
    /\ pc = "layout"
    /\ lay \in LayoutInputs
    /\ text = <<>>
    /\ budget = 0
    /\ max_lines = 0
    /\ lines = <<>>
    /\ chars_per_line = DefaultCharsPerLine
    /\ min_chars = MinChars
    /\ max_chars = MaxChars
    /\ calls = 0
    /\ truncated = FALSE
    /\ words = <<>>
    /\ processed = <<>>
    /\ count = 0
    /\ final_words = <<>>
    /\ cleaned_text = <<>>
    /\ req = NoRequest
    /\ drawn = <<>>
    /\ jobs = NoJobs
    /\ objects = NoObjects
    /\ backends = NoBackends

\* process_add_title_to_image: padding_bottom, new_image_height, y_start,
\* the font size and line spacing the text is drawn with, y_pos of each line
LayoutImage ==
    /\ pc = "layout"
    /\ lay.path = "image"
    /\ LET min_required_padding ==
               MinRequiredPadding(lay.total_lines, lay.font_size, lay.pm10)
           raised == ResolvedPadding(lay.caller_padding, min_required_padding)
           too_large == lay.original_height - raised <= 0
           padding_bottom == IF too_large THEN lay.original_height \div 2 ELSE raised
           new_image_height == lay.original_height - padding_bottom
           y_start == new_image_height + ExtraPadding(lay.font_size, lay.pm10)
           shrink == TooWide(lay.max_text_width, lay.original_width)
           new_font_size ==
               IF shrink
               THEN ShrunkFontSize(lay.font_size, lay.original_width, lay.max_text_width)
               ELSE lay.font_size
           line_spacing == IF shrink THEN LineSpacing(new_font_size)
                           ELSE LineSpacing(lay.font_size)
       IN lay' = [lay EXCEPT
                    !.line_spacing = LineSpacing(lay.font_size),
                    !.total_text_height = TotalTextHeight(lay.total_lines, lay.font_size),
                    !.extra_padding = ExtraPadding(lay.font_size, lay.pm10),
                    !.min_required_padding = min_required_padding,
                    !.raised_padding = raised,
                    !.padding = padding_bottom,
                    !.media_height = new_image_height,
                    !.y_start = y_start,
                    !.new_font_size = new_font_size,
                    !.draw_line_spacing = line_spacing,
                    !.y_pos = LinePositions(lay.total_lines, y_start,
                                            lay.font_size, line_spacing)]
    /\ pc' = "laid"
    /\ UNCHANGED <<text, max_lines, budget, lines, chars_per_line, min_chars, max_chars,
                   calls, truncated, words, processed, count, final_words,
                   cleaned_text, req,
                   drawn, jobs, objects, backends>>

\* process_add_title: padding_top, video_height, y_start, y_pos of each line
LayoutVideo ==
    /\ pc = "layout"
    /\ lay.path = "video"
    /\ LET min_required_padding ==
               MinRequiredPadding(lay.total_lines, lay.font_size, lay.pm10)
           raise == lay.caller_padding < min_required_padding
           raised == ResolvedPadding(lay.caller_padding, min_required_padding)
           too_large == raise /\ lay.original_height - raised <= 0
           padding_top == IF too_large THEN lay.original_height \div 2 ELSE raised
           video_height == lay.original_height - padding_top
           y_start == ExtraPadding(lay.font_size, lay.pm10)
       IN lay' = [lay EXCEPT
                    !.line_spacing = LineSpacing(lay.font_size),
                    !.total_text_height = TotalTextHeight(lay.total_lines, lay.font_size),
                    !.extra_padding = ExtraPadding(lay.font_size, lay.pm10),
                    !.min_required_padding = min_required_padding,
                    !.raised_padding = raised,
                    !.padding = padding_top,
                    !.media_height = video_height,
                    !.y_start = y_start,
                    !.new_font_size = lay.font_size,
                    !.draw_line_spacing = LineSpacing(lay.font_size),
                    !.y_pos = LinePositions(lay.total_lines, y_start, lay.font_size,
                                            LineSpacing(lay.font_size))]
    /\ pc' = "laid"
    /\ UNCHANGED <<text, max_lines, budget, lines, chars_per_line, min_chars, max_chars,
                   calls, truncated, words, processed, count, final_words,
                   cleaned_text, req,
                   drawn, jobs, objects, backends>>

NextLayout == LayoutImage \/ LayoutVideo

SpecLayout == InitLayout /\ [][NextLayout]_vars

Laid == pc = "laid"

\* C10: the minimum required padding is
\* lines*font_size + (lines-1)*int(0.3*font_size) + 2*int(font_size*padding_multiplier),
\* truncated at each step, in the image and in the video path; for
\* font_size = 64, padding_multiplier = 0.5 and 2 lines it is 211.
C10_MinRequiredPadding ==
    Laid => /\ lay.min_required_padding =
                 (lay.total_lines * lay.font_size)
                 + ((lay.total_lines - 1) * ((3 * lay.font_size) \div 10))
                 + (2 * ((lay.font_size * lay.pm10) \div 10))
            /\ (lay.font_size = 64 /\ lay.pm10 = 5 /\ lay.total_lines = 2)
                   => lay.min_required_padding = 211

\* C10 witness: the video path computed 211 for font_size 64, multiplier 0.5
\* and 2 lines, with line spacing 19 and breathing padding 32.
C10_Witness ==
    /\ Laid /\ lay.path = "video"
    /\ lay.font_size = 64 /\ lay.pm10 = 5 /\ lay.total_lines = 2
    /\ lay.line_spacing = 19 /\ lay.extra_padding = 32
    /\ lay.min_required_padding = 211

\* C11: whenever the padding would consume the entire media height, the
\* resolved padding is exactly half the media height (integer division), and
\* for every media height >= 1 and every caller-supplied padding the resolved
\* padding is strictly positive.
C11_ClampedToHalfAndPositive ==
    Laid => /\ (lay.original_height - lay.raised_padding <= 0
                   => lay.padding = lay.original_height \div 2)
            /\ lay.padding > 0

C18_PaddingRaisedToMax ==
    Laid => /\ lay.raised_padding = Max(lay.caller_padding, lay.min_required_padding)
            /\ Len(lay.y_pos) = lay.total_lines
            /\ lay.min_required_padding =
                   MinRequiredPadding(Len(lay.y_pos), lay.font_size, lay.pm10)
            /\ lay.new_font_size # lay.font_size
                   => /\ lay.path = "image"
                      /\ TooWide(lay.max_text_width, lay.original_width)

\* C18 witness: two lines at font size 64 need 211; the caller's 180 was
\* raised to 211, and both lines are drawn at font size 64.
C18_Witness ==
    /\ Laid
    /\ lay.caller_padding = 180 /\ lay.min_required_padding = 211
    /\ lay.raised_padding = 211 /\ lay.padding = 211
    /\ lay.new_font_size = 64 /\ Len(lay.y_pos) = 2

\* C19: in the image layout the vertical offset of line i from the top of
\* the text block is i * (F + S), F and S being the font size and the line
\* spacing the text is drawn with (the values after shrink-to-fit).
C19_LineOffsets ==
    (Laid /\ lay.path = "image") =>
        \A i \in 1..lay.total_lines :
            lay.y_pos[i] - lay.y_start
                = (i - 1) * (lay.new_font_size + lay.draw_line_spacing)

\* C26: in the image and in the video path, for every media height >= 1 and
\* every caller-supplied padding, the media height that remains after the
\* padding resolution is strictly positive, and remaining height plus
\* resolved padding is the original height.
C26_RemainingHeightPositive ==
    Laid => /\ lay.media_height > 0
            /\ lay.media_height + lay.padding = lay.original_height

\* C27: for every layout with at least one line, the vertical extent
\* [y_pos, y_pos + font size] of each line lies in the band the resolved
\* padding reserves (image: from original_height - padding to
\* original_height; video: from 0 to padding_top), also when the padding was
\* clamped to half the media height.
C27_TextInsidePaddingBand ==
    (Laid /\ lay.total_lines >= 1) =>
        \A i \in 1..lay.total_lines :
            IF lay.path = "image"
            THEN /\ lay.y_pos[i] >= lay.original_height - lay.padding
                 /\ lay.y_pos[i] + lay.new_font_size <= lay.original_height
            ELSE /\ lay.y_pos[i] >= 0
                 /\ lay.y_pos[i] + lay.new_font_size <= lay.padding

----------------------------------------------------------------------------
(* The endpoints add_title_to_image and add_title_to_video, one action per  *)
(* handler.  word_tokenize raises when the segmenter is unavailable; the    *)
(* download, the rendering and the upload are outside calls that may fail.  *)

\* Whether smart_split_thai_text(s, limit) calls word_tokenize
RECURSIVE PackTokenizes(_, _)
PackTokenizes(s, limit) ==
    IF NewlineFirst(s) THEN FALSE
    ELSE IF ShortEnough(s, limit) THEN FALSE
    ELSE IF Contains(s, ":")
         THEN LET p == ColonParts(s) IN
              IF StrLen(p.title_part) <= limit /\ StrLen(p.subtitle_part) <= limit
              THEN FALSE
              ELSE IF StrLen(p.title_part) <= limit
                   THEN PackTokenizes(p.subtitle_part, limit)
                   ELSE IsThai(s)
         ELSE IsThai(s)

\* Whether a pass of the binary search, or the final re-pack, calls
\* word_tokenize
RECURSIVE SearchTokenizes(_, _, _)
SearchTokenizes(s, m, st) ==
    IF st.lo <= st.hi
    THEN \/ PackTokenizes(s, (st.lo + st.hi) \div 2)
         \/ SearchTokenizes(s, m, SearchStep(s, m, st))
    ELSE PackTokenizes(s, st.cpl)

\* Whether adaptive_split_thai_text(s, m) calls word_tokenize
SplitTokenizes(s, m) ==
    /\ ~EarlyReturn(s, m)
    /\ \/ PackTokenizes(s, DefaultCharsPerLine)
       \/ /\ Len(smart_split_thai_text(s, DefaultCharsPerLine)) > m
          /\ SearchTokenizes(s, m, [lo |-> MinChars, hi |-> MaxChars,
                                    cpl |-> DefaultCharsPerLine])

\* find_important_words tokenizes whatever text it is given
RankTokenizes(s) == TRUE

\* `if 'image_url' not in data` / `if 'title' not in data`
MissingImage(r) == r.url = "absent" \/ ~r.has_title

\* `if not video_url` / `if not title`
MissingVideo(r) == r.url \in {"absent", "empty"} \/ ~r.has_title \/ r.title = <<>>

\* The steps of process_add_title(_to_image) that are started when the step
\* `failing` raises
PipelineSteps(failing) ==
    CASE failing = "download" -> <<"download">>
      [] failing = "render" -> <<"download", "render">>
      [] OTHER -> <<"download", "render", "upload">>

\* The body of a handler after its validation; ranks says whether the
\* handler calls find_important_words
ProcessTitle(r, ranks) ==
    LET title == clean_title_text(r.title)
        split_tokenizes == SplitTokenizes(title, r.max_lines)
        split_raises == split_tokenizes /\ ~r.segmenter_available
        rank_runs == ranks /\ ~split_raises
        rank_tokenizes == rank_runs /\ RankTokenizes(title)
        rank_raises == rank_tokenizes /\ ~r.segmenter_available
        processes == ~split_raises /\ ~rank_raises
    IN [r EXCEPT
          !.steps = <<"clean", "split">>
                        \o (IF rank_runs THEN <<"rank">> ELSE <<>>)
                        \o (IF processes THEN PipelineSteps(r.failing_step) ELSE <<>>),
          !.tokenized_by = (IF split_tokenizes THEN <<"split">> ELSE <<>>)
                               \o (IF rank_tokenizes THEN <<"rank">> ELSE <<>>),
          \* process_add_title returns its error as a result, which is sent
          \* with status 200; process_add_title_to_image re-raises
          !.status = IF processes /\ (r.failing_step = "none" \/ r.endpoint = "video")
                     THEN 200 ELSE 500]

TitlePalette == {ThaiWord, LatinWord, SP, COLON}
TitleTexts == SeqsUpTo(TitlePalette, MaxTitleAtoms)

\* One request: the value of request.get_json() ("null" is None, which has
\* no keys), its keys, and how the outside calls of this request behave
Requests ==
    {r \in [endpoint : {"image", "video"},
            body : {"object", "null"},
            url : {"absent", "empty", "given"},
            has_title : BOOLEAN,
            title : TitleTexts,
            max_lines : {1, 3},
            auto_highlight : BOOLEAN,
            segmenter_available : BOOLEAN,
            failing_step : {"none", "download", "render", "upload"},
            status : {0},
            steps : {<<>>},
            tokenized_by : {<<>>}] :
        /\ r.body = "null" => r.url = "absent" /\ ~r.has_title
        /\ ~r.has_title => r.title = <<>>
        /\ r.endpoint = "video" => ~r.auto_highlight}

InitEndpoint ==
    /\ pc = "request"
    /\ req \in Requests
    /\ drawn = <<>>
    /\ jobs = NoJobs
    /\ objects = NoObjects
    /\ backends = NoBackends
    /\ text = <<>>
    /\ budget = 0
    /\ max_lines = 0
    /\ lines = <<>>
    /\ chars_per_line = DefaultCharsPerLine
    /\ min_chars = MinChars
    /\ max_chars = MaxChars
    /\ calls = 0
    /\ truncated = FALSE
    /\ words = <<>>
    /\ processed = <<>>
    /\ count = 0
    /\ final_words = <<>>
    /\ lay = NoLayout
    /\ cleaned_text = <<>>

\* add_title_to_image
AddTitleToImage ==
    /\ pc = "request"
    /\ req.endpoint = "image"
    /\ req' = IF req.body = "null" THEN [req EXCEPT !.status = 500]
              ELSE IF MissingImage(req) THEN [req EXCEPT !.status = 400]
              ELSE ProcessTitle(req, req.auto_highlight)
    /\ pc' = "responded"
    /\ UNCHANGED <<text, max_lines, budget, lines, chars_per_line, min_chars, max_chars,
                   calls, truncated, words, processed, count, final_words, lay,
                   cleaned_text,
                   drawn, jobs, objects, backends>>

\* add_title_to_video
AddTitleToVideo ==
    /\ pc = "request"
    /\ req.endpoint = "video"
    /\ req' = IF req.body = "null" THEN [req EXCEPT !.status = 500]
              ELSE IF MissingVideo(req) THEN [req EXCEPT !.status = 400]
              ELSE ProcessTitle(req, FALSE)
    /\ pc' = "responded"
    /\ UNCHANGED <<text, max_lines, budget, lines, chars_per_line, min_chars, max_chars,
                   calls, truncated, words, processed, count, final_words, lay,
                   cleaned_text,
                   drawn, jobs, objects, backends>>

NextEndpoint == AddTitleToImage \/ AddTitleToVideo

SpecEndpoint == InitEndpoint /\ [][NextEndpoint]_vars

Responded == pc = "responded"

\* C13: for a title without a Thai code point neither the line splitting nor
\* (with auto_highlight) the ranking invokes the segmenter, and the title
\* processing succeeds, the download being started, even when the segmenter
\* is unavailable.
C13_LatinTitleNeedsNoSegmenter ==
    (/\ Responded /\ req.status # 400 /\ req.body = "object"
     /\ ~IsThai(req.title))
        => /\ req.tokenized_by = <<>>
           /\ \E i \in 1..Len(req.steps) : req.steps[i] = "download"

\* C14: when the media URL or the title is absent from the request, the
\* image and the video endpoint respond with HTTP 400 and no cleaning,
\* splitting, ranking, download, rendering or upload step is executed.
C14_MissingInputRejected ==
    (Responded /\ (req.url = "absent" \/ ~req.has_title))
        => req.status = 400 /\ req.steps = <<>>

----------------------------------------------------------------------------
(* All calls together *)

----------------------------------------------------------------------------
(* process_add_title_to_image and process_add_title for two requests that  *)
(* are served concurrently: job id, temporary directory, download, render, *)
(* upload, clean-up and response.  The requests have passed validation and *)
(* carry no metadata request.                                              *)

DEFAULT_STORAGE == "minio"
FALLBACK_STORAGE == "none"

\* minio_available, as left by init_minio_client at import
minio_available(b) ==
    IF DEFAULT_STORAGE = "minio" \/ FALLBACK_STORAGE = "minio" THEN b.minio_available ELSE FALSE

\* gcs_available, as left by init_gcs_client at import
gcs_available(b) ==
    IF DEFAULT_STORAGE = "gcp" \/ FALLBACK_STORAGE = "gcp" THEN b.gcs_accepts ELSE FALSE

\* The empty URL ""
NoObject == [backend |-> "none", name |-> <<>>]

\* _upload_to_minio / _upload_to_gcs: (success, url)
UploadTo(backend, object_name, ok) ==
    IF ok THEN [success |-> TRUE, url |-> [backend |-> backend, name |-> object_name]]
    ELSE [success |-> FALSE, url |-> NoObject]

\* upload_file(file_data, object_name, content_type, folder, make_public);
\* minio_ok says whether the MinIO put succeeds, b.gcs_accepts whether a GCS
\* upload does
upload_file(object_name, folder, b, minio_ok) ==
    LET name == IF folder # "" THEN <<folder, "/">> \o object_name ELSE object_name
        none == [success |-> FALSE, url |-> NoObject, storage_used |-> "None"]
        Try(storage, fallthrough) ==
            IF storage = "minio" /\ minio_available(b)
            THEN UploadTo("minio", name, minio_ok) @@ [storage_used |-> "minio"]
            ELSE IF storage = "gcp" /\ gcs_available(b)
            THEN UploadTo("gcp", name, b.gcs_accepts) @@ [storage_used |-> "gcp"]
            ELSE fallthrough
        primary == Try(DEFAULT_STORAGE, none)
    IN IF ~primary.success /\ FALLBACK_STORAGE # "none"
       THEN Try(FALLBACK_STORAGE, primary)
       ELSE primary

JobNames == {"j1", "j2"}
CallerIds == {"absent", "a", "b"}

\* The request bodies: the endpoint, the field "id", and the step of the
\* processing that fails for this request
JobInputs ==
    [endpoint : {"image", "video"}, id : CallerIds,
     failing_step : {"none", "download", "render", "upload"}]

NoResponse == [status |-> 0, url |-> <<>>, error |-> FALSE]

NewJob(i) ==
    [endpoint |-> i.endpoint, id |-> i.id, failing_step |-> i.failing_step,
     at |-> "request", job_id |-> <<>>, files |-> {}, steps |-> <<>>,
     uploaded |-> NoObject, response |-> NoResponse]

\* str(uuid.uuid4()) in the image handler; data.get('id', f"title_{uuid.uuid4()}")
\* in the video handler.  A uuid4 is the value of the call that drew it.
JobId(j, job) ==
    IF job.endpoint = "image" THEN <<"uuid", j>>
    ELSE IF job.id = "absent" THEN <<"title_uuid", j>>
    ELSE <<"id", job.id>>

\* f"{job_id}_titled_image.jpg"; os.path.basename(output_video)
OutputName(job) ==
    IF job.endpoint = "image" THEN job.job_id \o <<"_titled_image.jpg">>
    ELSE <<"output_">> \o job.job_id \o <<".mp4">>

\* `if not success: raise Exception("Failed to upload image to storage")`
UploadRaisesNever(up) == FALSE
UploadRaises(up) == ~up.success

\* The except clauses: the image function re-raises and the handler answers
\* 500 with an error; the video function returns an error result, which
\* the handler sends as it is
Failed(job) ==
    [job EXCEPT !.at = "responded",
                !.response = [status |-> IF job.endpoint = "image" THEN 500 ELSE 200,
                              url |-> <<>>, error |-> TRUE]]

InitJobs ==
    /\ pc = "jobs"
    /\ jobs \in {[j \in JobNames |-> NewJob(f[j])] : f \in [JobNames -> JobInputs]}
    /\ objects = NoObjects
    /\ backends \in [minio_available : BOOLEAN, gcs_accepts : BOOLEAN]
    /\ text = <<>>
    /\ drawn = <<>>
    /\ cleaned_text = <<>>
    /\ budget = 0
    /\ max_lines = 0
    /\ lines = <<>>
    /\ chars_per_line = DefaultCharsPerLine
    /\ min_chars = MinChars
    /\ max_chars = MaxChars
    /\ calls = 0
    /\ truncated = FALSE
    /\ words = <<>>
    /\ processed = <<>>
    /\ count = 0
    /\ final_words = <<>>
    /\ lay = NoLayout
    /\ req = NoRequest

JobsUnchanged ==
    UNCHANGED <<pc, text, max_lines, budget, lines, chars_per_line, min_chars, max_chars,
                calls, truncated, words, processed, count, final_words, lay,
                cleaned_text, req, drawn, backends>>

\* The handler draws the job id; the processing function creates its
\* temporary directory
StartJob(j) ==
    /\ jobs[j].at = "request"
    /\ jobs' = [jobs EXCEPT ![j] = [@ EXCEPT !.at = "download",
                                             !.job_id = JobId(j, jobs[j]),
                                             !.files = {"temp_dir"}]]
    /\ UNCHANGED objects
    /\ JobsUnchanged

\* download_image(image_url, input_image_path) / download_file(video_url, input_video)
Download(j) ==
    /\ jobs[j].at = "download"
    /\ jobs' = [jobs EXCEPT ![j] =
                  IF @.failing_step = "download" THEN Failed(@)
                  ELSE [@ EXCEPT !.at = "render",
                                 !.files = @ \cup {"input"},
                                 !.steps = Append(@, "download")]]
    /\ UNCHANGED objects
    /\ JobsUnchanged

\* Drawing and new_img.save(output_image_path) / the ffmpeg run
Render(j) ==
    /\ jobs[j].at = "render"
    /\ jobs' = [jobs EXCEPT ![j] =
                  IF @.failing_step = "render" THEN Failed(@)
                  ELSE [@ EXCEPT !.at = "upload",
                                 !.files = @ \cup {"output"},
                                 !.steps = Append(@, "render")]]
    /\ UNCHANGED objects
    /\ JobsUnchanged

\* upload_file(..., folder="titled-images") in the image function,
\* upload_to_gcs_with_path(output_video, f"titled_videos/{basename}") in the
\* video function.  A stored object replaces the object of the same name.
Upload(j) ==
    /\ jobs[j].at = "upload"
    /\ LET job == jobs[j]
           ok == job.failing_step # "upload"
           up == IF job.endpoint = "image"
                 THEN upload_file(OutputName(job), "titled-images", backends, ok)
                 ELSE UploadTo("gcp", <<"titled_videos", "/">> \o OutputName(job), ok)
           raises == IF job.endpoint = "image" THEN UploadRaises(up) ELSE ~up.success
       IN /\ objects' = IF up.success
                        THEN {o \in objects : o.url # up.url} \cup {[url |-> up.url, writer |-> j]}
                        ELSE objects
          /\ jobs' = [jobs EXCEPT ![j] =
                        IF raises THEN Failed(@)
                        ELSE [@ EXCEPT !.at = "cleanup",
                                       !.uploaded = up.url,
                                       !.steps = IF up.success THEN Append(@, "upload") ELSE @]]
    /\ JobsUnchanged

\* The clean-up on the success path, `return result` and `jsonify(result)`
CleanUpAndRespond(j) ==
    /\ jobs[j].at = "cleanup"
    /\ jobs' = [jobs EXCEPT ![j] =
                  [@ EXCEPT !.at = "responded",
                            !.files = {},
                            !.response = [status |-> 200, url |-> <<jobs[j].uploaded>>,
                                          error |-> FALSE]]]
    /\ UNCHANGED objects
    /\ JobsUnchanged

NextJobs ==
    \E j \in JobNames :
        \/ StartJob(j)
        \/ Download(j)
        \/ Render(j)
        \/ Upload(j)
        \/ CleanUpAndRespond(j)

SpecJobs == InitJobs /\ [][NextJobs]_vars

JobResponded(j) == pc = "jobs" /\ jobs[j].at = "responded"

\* C24: a response carries a result URL only after download, rendering and
\* upload have all succeeded, in that order; when one of these steps has
\* failed the response carries an error and no result URL.
C24_UrlOnlyAfterAllSteps ==
    \A j \in DOMAIN jobs :
        JobResponded(j) =>
            IF jobs[j].steps = <<"download", "render", "upload">>
            THEN /\ jobs[j].response.url # <<>>
                 /\ jobs[j].response.url[1] # NoObject
                 /\ ~jobs[j].response.error
            ELSE /\ jobs[j].response.url = <<>>
                 /\ jobs[j].response.error

\* C24 witness: one request has been answered with the URL of its image and
\* the other one, whose upload failed after download and rendering, with an
\* error.
C24_Witness ==
    /\ pc = "jobs"
    /\ JobResponded("j1") /\ jobs["j1"].endpoint = "image"
    /\ jobs["j1"].response.url # <<>> /\ jobs["j1"].response.status = 200
    /\ JobResponded("j2") /\ jobs["j2"].failing_step = "upload"
    /\ jobs["j2"].steps = <<"download", "render">>
    /\ jobs["j2"].response.error /\ jobs["j2"].response.url = <<>>

\* C25: when the MinIO upload of an image fails or MinIO is unavailable and
\* GCS accepts the upload, the image is stored on GCS and the response
\* carries the GCS URL.
C25_FallbackToGcs ==
    \A j \in DOMAIN jobs :
        (/\ JobResponded(j) /\ jobs[j].endpoint = "image"
         /\ jobs[j].failing_step \in {"none", "upload"}
         /\ ~(backends.minio_available /\ jobs[j].failing_step = "none")
         /\ backends.gcs_accepts)
            => /\ jobs[j].response.url # <<>>
               /\ jobs[j].response.url[1].backend = "gcp"

\* C29: two concurrently processed requests never upload to the same object
\* name, and the URL returned to a request refers to the object written by
\* that request.
C29_OwnObjectPerRequest ==
    /\ \A j, k \in DOMAIN jobs :
          (j # k /\ jobs[j].uploaded # NoObject /\ jobs[k].uploaded # NoObject)
              => jobs[j].uploaded # jobs[k].uploaded
    /\ \A j \in DOMAIN jobs :
          (JobResponded(j) /\ jobs[j].response.url # <<>>)
              => [url |-> jobs[j].response.url[1], writer |-> j] \in objects

\* C30: when a request has been answered, on success or after a failed
\* download, rendering or upload, its temporary directory and the files in
\* it have been removed.
C30_TempDirRemoved ==
    \A j \in DOMAIN jobs : JobResponded(j) => jobs[j].files = {}

Init ==
    \/ InitSolve \/ InitPack \/ InitReattach \/ InitRank \/ InitLayout \/ InitClean
    \/ InitEndpoint \/ InitDraw \/ InitJobs

Next ==
    \/ NextSolve \/ NextPack \/ NextReattach \/ NextRank \/ NextLayout \/ NextClean
    \/ NextEndpoint \/ NextDraw \/ NextJobs

Spec == Init /\ [][Next]_vars

====
